---- MODULE Spec2Model ----
(***************************************************************************)
(* Model of expr/helper/helper.go of carbonapi: series argument            *)
(* resolution, series alignment, aggregation, the per-series transform     *)
(* helper and the metric-name scanner.                                     *)
(***************************************************************************)
EXTENDS Integers, Sequences, FiniteSets, TLC

VARIABLES
    op,                 \* the helper being called
    pc,                 \* "start" before the call, "done" after it
    heap,               \* address -> MetricData ([]*types.MetricData points here)
    bufs,               \* address -> backing array of a Values slice (SpecResolve)
    args,               \* the call's argument list (sequence of addresses)
    expr,               \* the parser.Expr node the call is given
    fn,                 \* the function value the call is given
    ExtrapolatePoints,  \* the package-level flag read by AlignSeries
    arch,               \* the build target (decides float->int of NaN)
    in,                 \* the heap before the call, kept for comparison
    out,                \* the call's return value
    fault,              \* the run-time panic the call ended in, or "none"
    procs,              \* SpecRace: the locals of each running AlignSeries call
    overlapped          \* SpecRace: a call took a step while the other was running

vars == <<op, pc, heap, bufs, args, expr, fn, ExtrapolatePoints, arch, in, out, fault,
          procs, overlapped>>

\* no concurrent call is running
NoProcs == [p \in {1, 2} |-> [pc |-> "none"]]

\* the variables only SpecRace changes
raceVars == <<procs, overlapped>>

(***************************************************************************)
(* Bounds of the model.                                                    *)
(***************************************************************************)
MaxArgs == 2
MaxStart == 2
MaxVals == 2

\* steps tried for a series: two positive steps, zero and a negative one
StepSet == {-1, 0, 1, 2}

Archs == {"amd64", "arm64"}

(***************************************************************************)
(* float64.  A value is <<n, d>>: a finite non-zero number is n/d in       *)
(* lowest terms with d > 0; +0 is <<0, 1>>, -0 is <<0, -1>>; +Inf is       *)
(* <<1, 0>>, -Inf is <<-1, 0>> and NaN is <<0, 0>>.  Finite arithmetic is  *)
(* exact (no rounding).                                                    *)
(***************************************************************************)
NaN == <<0, 0>>

PosInf == <<1, 0>>

NegInf == <<-1, 0>>

PosZero == <<0, 1>>

NegZero == <<0, -1>>

Abs(n) == IF n < 0 THEN -n ELSE n

RECURSIVE GCD(_, _)
GCD(a, b) == IF b = 0 THEN a ELSE GCD(b, a % b)

IsNaN(a) == a = NaN

IsInf(a) == a[2] = 0 /\ a[1] # 0

IsZero(a) == a[1] = 0 /\ a[2] # 0

SignBit(a) == IF a[1] # 0 THEN a[1] < 0 ELSE a[2] < 0

SignedZero(neg) == IF neg THEN NegZero ELSE PosZero

SignedInf(neg) == IF neg THEN NegInf ELSE PosInf

\* n/d for d # 0, in the representation above; a zero takes the sign neg
Ratio(n, d, neg) ==
    IF n = 0 THEN SignedZero(neg)
    ELSE LET s == IF d < 0 THEN -1 ELSE 1
             g == GCD(Abs(n), Abs(d))
         IN  <<(s * n) \div g, (s * d) \div g>>

\* float64(i) of an integer
Float(i) == <<i, 1>>

FAdd(a, b) ==
    IF IsNaN(a) \/ IsNaN(b) THEN NaN
    ELSE IF IsInf(a) THEN (IF IsInf(b) /\ a # b THEN NaN ELSE a)
    ELSE IF IsInf(b) THEN b
    ELSE IF IsZero(a) /\ IsZero(b) THEN SignedZero(SignBit(a) /\ SignBit(b))
    ELSE Ratio(a[1] * Abs(b[2]) + b[1] * Abs(a[2]), Abs(a[2]) * Abs(b[2]), FALSE)

FNeg(a) == IF IsNaN(a) THEN NaN ELSE IF IsZero(a) THEN <<0, -a[2]>> ELSE <<-a[1], a[2]>>

FSub(a, b) == FAdd(a, FNeg(b))

FDiv(a, b) ==
    LET neg == SignBit(a) # SignBit(b)
    IN  IF IsNaN(a) \/ IsNaN(b) THEN NaN
        ELSE IF IsInf(a) THEN (IF IsInf(b) THEN NaN ELSE SignedInf(neg))
        ELSE IF IsInf(b) THEN SignedZero(neg)
        ELSE IF IsZero(b) THEN (IF IsZero(a) THEN NaN ELSE SignedInf(neg))
        ELSE IF IsZero(a) THEN SignedZero(neg)
        ELSE Ratio(a[1] * b[2], a[2] * b[1], neg)

\* math.Ceil
Ceil(a) ==
    IF a[2] = 0 \/ a[1] = 0 THEN a
    ELSE LET c == -((-a[1]) \div a[2])
         IN  IF c = 0 THEN NegZero ELSE <<c, 1>>

\* int(f) of an integral float, as the length of a slice: [v, len].  A value
\* int cannot represent converts to an implementation-dependent result: the
\* minimum integer on amd64; saturated on arm64, NaN to 0.  len is "ok" when the
\* result is the integer v, "min" and "max" for the two extreme integers.
IntOfFloat(a, target) ==
    IF a[2] # 0 THEN [v |-> a[1], len |-> "ok"]
    ELSE IF target = "amd64" THEN [v |-> 0, len |-> "min"]
    ELSE IF IsNaN(a) THEN [v |-> 0, len |-> "ok"]
    ELSE IF a = PosInf THEN [v |-> 0, len |-> "max"] ELSE [v |-> 0, len |-> "min"]

\* integer division of Go: truncated toward zero (d # 0)
Quo(n, d) ==
    IF (n >= 0) = (d > 0) THEN Abs(n) \div Abs(d) ELSE -(Abs(n) \div Abs(d))

\* make([]float64, n), n >= 0: a zero-filled buffer
MakeFloats(n) == [i \in 1..n |-> PosZero]

(***************************************************************************)
(* AlignSeries                                                             *)
(***************************************************************************)
\* the resampling loop `for ts < arg.StopTime`; s holds the loop's locals
RECURSIVE ExtrapolateLoop(_, _, _, _)
ExtrapolateLoop(arg, minStepTime, pointsPerInterval, s) ==
    IF s.fault # "none" \/ ~(s.ts < arg.StopTime) THEN s
    ELSE IF s.i >= Len(s.newVals) THEN [s EXCEPT !.fault = "index out of range"]
    ELSE LET nv == [s.newVals EXCEPT ![s.i + 1] = s.v]
             v1 == FAdd(s.v, s.dv)
         IN  IF s.ts > s.nextTs
             THEN IF s.j + 1 >= Len(arg.Values)
                  THEN [s EXCEPT !.newVals = nv, !.fault = "index out of range"]
                  ELSE LET v2 == arg.Values[s.j + 2]
                       IN  ExtrapolateLoop(arg, minStepTime, pointsPerInterval,
                              [s EXCEPT !.newVals = nv, !.j = s.j + 1,
                                        !.nextTs = s.nextTs + arg.StepTime,
                                        !.v = v2,
                                        !.dv = FDiv(FSub(arg.Values[s.j + 1], v2),
                                                    pointsPerInterval),
                                        !.ts = s.ts + minStepTime, !.i = s.i + 1])
             ELSE ExtrapolateLoop(arg, minStepTime, pointsPerInterval,
                     [s EXCEPT !.newVals = nv, !.v = v1,
                               !.ts = s.ts + minStepTime, !.i = s.i + 1])

\* the body of `if arg.StepTime > minStepTime`: [arg, fault]
Extrapolate(arg, minStepTime, target) ==
    LET valsCnt == IntOfFloat(Ceil(FDiv(Float(arg.StopTime - arg.StartTime),
                                        Float(minStepTime))), target)
        ts == arg.StartTime
        nextTs == arg.StartTime + arg.StepTime
        pointsPerInterval == FDiv(Float(ts - nextTs), Float(minStepTime))
    IN  IF valsCnt.len # "ok" \/ valsCnt.v < 0
        THEN [arg |-> arg, fault |-> "makeslice: len out of range"]
        ELSE IF Len(arg.Values) < 2
        THEN [arg |-> arg, fault |-> "index out of range"]
        ELSE LET s == ExtrapolateLoop(arg, minStepTime, pointsPerInterval,
                         [ts |-> ts, nextTs |-> nextTs, i |-> 0, j |-> 0,
                          v |-> arg.Values[1],
                          dv |-> FDiv(FSub(arg.Values[1], arg.Values[2]),
                                      pointsPerInterval),
                          newVals |-> MakeFloats(valsCnt.v), fault |-> "none"])
             IN  IF s.fault # "none" THEN [arg |-> arg, fault |-> s.fault]
                 ELSE [arg |-> [arg EXCEPT !.Values = s.newVals,
                                           !.StepTime = minStepTime],
                       fault |-> "none"]

\* the first inner loop (lines 119-149) from the k-th argument on; a is the
\* state of the call: [heap, minStart, maxStop, maxVals, minStepTime, fault]
RECURSIVE ExtrapolateArgs(_, _, _, _)
ExtrapolateArgs(as, k, a, target) ==
    IF k > Len(as) \/ a.fault # "none" THEN a
    ELSE LET arg == a.heap[as[k]]
             mst == IF arg.StepTime < a.minStepTime THEN arg.StepTime
                    ELSE a.minStepTime
         IN  IF arg.StepTime > mst
             THEN LET r == Extrapolate(arg, mst, target)
                  IN  ExtrapolateArgs(as, k + 1,
                         [a EXCEPT !.minStepTime = mst, !.heap[as[k]] = r.arg,
                                   !.fault = r.fault], target)
             ELSE ExtrapolateArgs(as, k + 1, [a EXCEPT !.minStepTime = mst], target)

\* lines 159-165: prepend padding to arg; [arg, fault]
PadFront(arg, minStart) ==
    IF ~(minStart < arg.StartTime) THEN [arg |-> arg, fault |-> "none"]
    ELSE IF arg.StepTime = 0 THEN [arg |-> arg, fault |-> "integer divide by zero"]
    ELSE LET valCnt == Quo(arg.StartTime - minStart, arg.StepTime)
         IN  IF valCnt < 0 THEN [arg |-> arg, fault |-> "makeslice: len out of range"]
             ELSE [arg |-> [arg EXCEPT !.Values = MakeFloats(valCnt) \o arg.Values,
                                       !.StartTime = minStart],
                   fault |-> "none"]

\* lines 170-175: append padding to arg; [arg, fault]
PadBack(arg, maxStop) ==
    IF ~(maxStop > arg.StopTime) THEN [arg |-> arg, fault |-> "none"]
    ELSE IF arg.StepTime = 0 THEN [arg |-> arg, fault |-> "integer divide by zero"]
    ELSE LET valCnt == Quo(maxStop - arg.StopTime, arg.StepTime)
         IN  IF valCnt < 0 THEN [arg |-> arg, fault |-> "makeslice: len out of range"]
             ELSE [arg |-> [arg EXCEPT !.Values = arg.Values \o MakeFloats(valCnt),
                                       !.StopTime = maxStop],
                   fault |-> "none"]

\* one iteration of the second inner loop (lines 153-175) on the k-th argument
PadArg(as, k, a) ==
    LET arg == a.heap[as[k]]
        mv == IF Len(arg.Values) > a.maxVals THEN Len(arg.Values) ELSE a.maxVals
        ms == IF arg.StartTime < a.minStart THEN arg.StartTime ELSE a.minStart
        f == PadFront(arg, ms)
        mx == IF f.arg.StopTime > a.maxStop THEN f.arg.StopTime ELSE a.maxStop
        b == PadBack(f.arg, mx)
    IN  IF f.fault # "none"
        THEN [a EXCEPT !.maxVals = mv, !.minStart = ms, !.fault = f.fault]
        ELSE [a EXCEPT !.maxVals = mv, !.minStart = ms, !.maxStop = mx,
                       !.heap[as[k]] = b.arg, !.fault = b.fault]

\* the second inner loop (lines 152-176) from the k-th argument on
RECURSIVE PadArgs(_, _, _)
PadArgs(as, k, a) ==
    IF k > Len(as) \/ a.fault # "none" THEN a
    ELSE PadArgs(as, k + 1, PadArg(as, k, a))

\* one iteration of `for j := 0; j < 2; j++`
AlignPass(as, a, extrapolate, target) ==
    PadArgs(as, 1, IF extrapolate THEN ExtrapolateArgs(as, 1, a, target) ELSE a)

\* the locals AlignSeries sets up before its loop (lines 113-116)
AlignStart(as, h) ==
    [heap |-> h, minStart |-> h[as[1]].StartTime, maxStop |-> h[as[1]].StopTime,
     maxVals |-> 0, minStepTime |-> h[as[1]].StepTime, fault |-> "none"]

\* AlignSeries with its reconciliation pass run once instead of twice
AlignSeries_OnePass(as, h, extrapolate, target) ==
    IF Len(as) = 0 THEN [AlignStart(<<1>>, h) EXCEPT !.fault = "index out of range"]
    ELSE AlignPass(as, AlignStart(as, h), extrapolate, target)

\* AlignSeries(args) on heap h: the state of the call when it returns or panics
AlignSeries(as, h, extrapolate, target) ==
    IF Len(as) = 0 THEN [AlignStart(<<1>>, h) EXCEPT !.fault = "index out of range"]
    ELSE AlignPass(as, AlignPass(as, AlignStart(as, h), extrapolate, target),
                   extrapolate, target)

(***************************************************************************)
(* Inputs                                                                  *)
(***************************************************************************)
\* the i-th sample of the series at address k: non-zero and distinct
Sample(k, i) == Float(10 * k + i)

\* the display names of the series, by address
Names == <<"a", "b", "c", "d", "e", "f", "g", "h", "i", "j", "k", "l", "m",
           "n", "o", "p", "q", "r", "s", "t", "u", "v", "w", "x", "y", "z">>

\* a string is the sequence of its pieces
SeriesName(k) == <<Names[k]>>

\* a series of n samples starting at t with step st, bounds [t, t + n*st]
Series(k, t, n, st) ==
    [Name |-> SeriesName(k), StartTime |-> t, StopTime |-> t + n * st, StepTime |-> st,
     Values |-> [i \in 1..n |-> Sample(k, i)]]

Addrs == 1..MaxArgs

\* an address of the heap that holds no series of the call
NoSeries == [Name |-> <<>>, StartTime |-> 0, StopTime |-> 0, StepTime |-> 1,
             Values |-> <<>>]

\* (start, number of samples, step) of a series
Shapes == (0..MaxStart) \X (0..MaxVals) \X StepSet

\* heaps holding series at addresses 1..n
Heaps(n) ==
    {[k \in Addrs |-> IF k <= n THEN Series(k, f[k][1], f[k][2], f[k][3])
                                ELSE NoSeries] : f \in [1..n -> Shapes]}

(***************************************************************************)
(* Specification: one call of AlignSeries on a list of distinct series     *)
(***************************************************************************)
InitAlign ==
    /\ op = "AlignSeries"
    /\ pc = "start"
    /\ \E n \in 1..MaxArgs :
          /\ args = [i \in 1..n |-> i]
          /\ heap \in Heaps(n)
    /\ ExtrapolatePoints \in BOOLEAN
    /\ arch \in (IF ExtrapolatePoints THEN Archs ELSE {"amd64"})
    /\ in = heap
    /\ out = <<>>
    /\ fault = "none"
    /\ bufs = <<>>
    /\ expr = <<>>
    /\ fn = "none"
    /\ procs = NoProcs
    /\ overlapped = FALSE

CallAlignSeries ==
    /\ op = "AlignSeries"
    /\ pc = "start"
    /\ LET r == AlignSeries(args, heap, ExtrapolatePoints, arch)
       IN  /\ heap' = r.heap
           /\ fault' = r.fault
           /\ out' = IF r.fault = "none" THEN args ELSE <<>>
    /\ pc' = "done"
    /\ UNCHANGED <<op, bufs, args, expr, fn, ExtrapolatePoints, arch, in, raceVars>>

NextAlign == CallAlignSeries

SpecAlign == InitAlign /\ [][NextAlign]_vars

(***************************************************************************)
(* Properties of AlignSeries                                               *)
(***************************************************************************)
AlignDone == op = "AlignSeries" /\ pc = "done"

\* the series the call was given, in list order
InArg(k) == in[args[k]]

\* the same series when the call is over
OutArg(k) == heap[args[k]]

ArgIdx == 1..Len(args)

MinInStart == CHOOSE t \in {InArg(k).StartTime : k \in ArgIdx} :
                 \A k \in ArgIdx : t <= InArg(k).StartTime

MaxInStop == CHOOSE t \in {InArg(k).StopTime : k \in ArgIdx} :
                \A k \in ArgIdx : t >= InArg(k).StopTime

PositiveSteps == \A k \in ArgIdx : InArg(k).StepTime > 0

\* C1 (as stated): two series of equal step s and different start times, in
\* either list order, extrapolation disabled: after AlignSeries both have the
\* same start time, the same stop time and the same number of values.
C1_PairAligned ==
    (/\ AlignDone /\ ~ExtrapolatePoints /\ Len(args) = 2
     /\ InArg(1).StepTime = InArg(2).StepTime /\ InArg(1).StepTime > 0
     /\ InArg(1).StartTime # InArg(2).StartTime)
    => /\ fault = "none"
       /\ OutArg(1).StartTime = OutArg(2).StartTime
       /\ OutArg(1).StopTime = OutArg(2).StopTime
       /\ Len(OutArg(1).Values) = Len(OutArg(2).Values)

\* C2 (as stated): a padded series gets (start - minStart)/step leading and
\* (maxStop - stop)/step trailing values, every padded value is NaN, and the
\* original values sit unchanged and in order between the two paddings.
C2_PaddingIsNaN ==
    (AlignDone /\ ~ExtrapolatePoints /\ PositiveSteps /\ fault = "none")
    => \A k \in ArgIdx :
          LET a == InArg(k)
              b == OutArg(k)
              lead == Quo(a.StartTime - MinInStart, a.StepTime)
              trail == Quo(MaxInStop - a.StopTime, a.StepTime)
              n == Len(a.Values)
          IN  /\ Len(b.Values) = lead + n + trail
              /\ \A i \in 1..lead : b.Values[i] = NaN
              /\ SubSeq(b.Values, lead + 1, lead + n) = a.Values
              /\ \A i \in (lead + n + 1)..(lead + n + trail) : b.Values[i] = NaN

\* the edge cases of C9: a step that is zero or negative, or, with
\* extrapolation enabled, a single-sample series whose step exceeds another's
EdgeCase ==
    \/ \E k \in ArgIdx : InArg(k).StepTime <= 0
    \/ /\ ExtrapolatePoints
       /\ \E k, m \in ArgIdx : /\ Len(InArg(k).Values) = 1
                                /\ InArg(k).StepTime > InArg(m).StepTime

\* C9 (as stated): on these edge cases AlignSeries does not end in a run-time
\* fault.
C9_NoFaultOnEdgeCases == (AlignDone /\ EdgeCase) => fault = "none"

\* C10: extrapolation disabled, positive steps: when AlignSeries returns, every
\* series starts at the minimum input start and stops at the maximum input
\* stop, and a third reconciliation pass changes no series.
C10_TwoPassesStable ==
    (AlignDone /\ ~ExtrapolatePoints /\ PositiveSteps)
    => /\ fault = "none"
       /\ \A k \in ArgIdx : /\ OutArg(k).StartTime = MinInStart
                             /\ OutArg(k).StopTime = MaxInStop
       /\ LET r == AlignSeries(args, in, FALSE, arch)
          IN  /\ r.heap = heap
              /\ AlignPass(args, r, FALSE, arch).heap = heap

\* a call in which only the second pass could pad the first series: it starts
\* later than a series after it in the list
C10_Witness ==
    /\ AlignDone /\ ~ExtrapolatePoints /\ PositiveSteps /\ Len(args) >= 2
    /\ InArg(1).StartTime > InArg(2).StartTime
    /\ Len(OutArg(1).Values) > Len(InArg(1).Values)

(***************************************************************************)
(* AggregateSeries                                                         *)
(***************************************************************************)
\* fmt.Sprintf("%s(%s)", a, b)
Sprintf2(a, b) == a \o <<"(">> \o b \o <<")">>

\* the aggregate functions tried as the caller's AggregateFunc
AggregateFuncs == {"sum", "first", "last"}

RECURSIVE SumSkipNaN(_, _, _)
SumSkipNaN(values, i, acc) ==
    IF i > Len(values) THEN acc
    ELSE IF IsNaN(values[i]) THEN SumSkipNaN(values, i + 1, acc)
    ELSE SumSkipNaN(values, i + 1, IF IsNaN(acc) THEN values[i]
                                   ELSE FAdd(acc, values[i]))

\* function(values): "sum" adds the values that are not NaN (NaN if there is
\* none), "first" and "last" return one of the values as it is
ApplyAggregate(f, values) ==
    IF f = "sum" THEN SumSkipNaN(values, 1, NaN)
    ELSE IF f = "first" THEN values[1]
    ELSE values[Len(values)]

\* lines 193-196 with the arguments visited last to first
Column_Reversed(as, h, i) ==
    [k \in 1..Len(as) |-> h[as[Len(as) + 1 - k]].Values[i]]

\* lines 193-196: the i-th value of every argument, in argument order
Column(as, h, i) == [k \in 1..Len(as) |-> h[as[k]].Values[i]]

\* lines 187-204, a being the state AlignSeries left: [heap, series, err, fault];
\* series is the list of the MetricData returned
AggregateAligned(e, as, a, f) ==
    IF a.fault # "none"
    THEN [heap |-> a.heap, series |-> <<>>, err |-> "nil", fault |-> a.fault]
    ELSE LET first == a.heap[as[1]]
             length == Len(first.Values)
         IN  IF \E i \in 1..length, k \in 1..Len(as) :
                    i > Len(a.heap[as[k]].Values)
             THEN [heap |-> a.heap, series |-> <<>>, err |-> "nil",
                   fault |-> "index out of range"]
             ELSE [heap |-> a.heap,
                   series |-> <<[first EXCEPT
                       !.Name = Sprintf2(e.Target, e.RawArgs),
                       !.Values = [i \in 1..length |->
                           IF Len(as) > 0
                           THEN ApplyAggregate(f, Column(as, a.heap, i))
                           ELSE NaN]]>>,
                   err |-> "nil", fault |-> "none"]

\* AggregateSeries(e, args, function): line 186, then the rest on its result
AggregateSeries(e, as, h, f, extrapolate, target) ==
    CHOOSE r \in {AggregateAligned(e, as, a, f) :
                     a \in {AlignSeries(as, h, extrapolate, target)}} : TRUE

\* the series AggregateSeries is tried on: positive steps, at least one sample
AggShapes == (0..1) \X (1..MaxVals) \X {1, 2}

AggHeaps(n) ==
    {[k \in Addrs |-> IF k <= n THEN Series(k, f[k][1], f[k][2], f[k][3])
                                ELSE NoSeries] : f \in [1..n -> AggShapes]}

\* h with the first sample of the series in gaps absent
WithGaps(h, gaps) ==
    [k \in DOMAIN h |-> IF k \in gaps THEN [h[k] EXCEPT !.Values[1] = NaN] ELSE h[k]]

\* the nodes AggregateSeries is tried with: function name and raw argument text
AggExprs == {[Target |-> <<"sumSeries">>, RawArgs |-> <<"a", ",", "b">>],
             [Target |-> <<"maxSeries">>, RawArgs |-> <<"x.*">>]}

InitAgg ==
    /\ op = "AggregateSeries"
    /\ pc = "start"
    /\ \E n \in 1..MaxArgs :
          /\ args = [i \in 1..n |-> i]
          /\ \E h \in AggHeaps(n), g \in 0..n :
                heap = WithGaps(h, IF g = 0 THEN {} ELSE {g})
    /\ ExtrapolatePoints \in BOOLEAN
    /\ arch \in (IF ExtrapolatePoints THEN Archs ELSE {"amd64"})
    /\ expr \in AggExprs
    /\ fn \in AggregateFuncs
    /\ in = heap
    /\ out = <<>>
    /\ fault = "none"
    /\ bufs = <<>>
    /\ procs = NoProcs
    /\ overlapped = FALSE

CallAggregateSeries ==
    /\ op = "AggregateSeries"
    /\ pc = "start"
    /\ LET r == AggregateSeries(expr, args, heap, fn, ExtrapolatePoints, arch)
       IN  /\ heap' = r.heap
           /\ fault' = r.fault
           /\ out' = [series |-> r.series, err |-> r.err]
    /\ pc' = "done"
    /\ UNCHANGED <<op, bufs, args, expr, fn, ExtrapolatePoints, arch, in, raceVars>>

NextAgg == CallAggregateSeries

SpecAgg == InitAgg /\ [][NextAgg]_vars

AggDone == op = "AggregateSeries" /\ pc = "done"

\* the alignment succeeded and left every input with the same number of values
AlignedLength ==
    /\ AlignSeries(args, in, ExtrapolatePoints, arch).fault = "none"
    /\ \A k \in ArgIdx : Len(OutArg(k).Values) = Len(OutArg(1).Values)

\* C5: over k >= 1 inputs of aligned length n, Aggregate returns one series of
\* n values and no error, named "<function name>(<raw argument text>)", whose
\* i-th value is fn of the inputs' i-th values in input order, NaN included.
C5_AggregateShape ==
    (AggDone /\ Len(args) >= 1 /\ AlignedLength)
    => LET n == Len(OutArg(1).Values)
       IN  /\ fault = "none"
           /\ out.err = "nil"
           /\ Len(out.series) = 1
           /\ Len(out.series[1].Values) = n
           /\ out.series[1].Name = expr.Target \o <<"(">> \o expr.RawArgs \o <<")">>
           /\ \A i \in 1..n :
                 out.series[1].Values[i] =
                    ApplyAggregate(fn, [k \in ArgIdx |-> OutArg(k).Values[i]])

\* two inputs, one with a gap where the other has a value: the sum at the gap
\* is the other's value
C5_Witness ==
    /\ AggDone /\ fault = "none" /\ Len(args) = 2 /\ fn = "sum"
    /\ Len(out.series) = 1
    /\ \E i \in 1..Len(out.series[1].Values) :
          /\ IsNaN(OutArg(1).Values[i])
          /\ ~IsNaN(OutArg(2).Values[i])
          /\ OutArg(2).Values[i] # PosZero
          /\ out.series[1].Values[i] = OutArg(2).Values[i]

(***************************************************************************)
(* GetSeriesArg, GetSeriesArgs, GetSeriesArgsAndRemoveNonExisting,         *)
(* ForEachSeriesDo                                                         *)
(*                                                                         *)
(* An argument node is [id, kind, res]: kind is "name", "func" or "const"  *)
(* and res = [err, series] is what evaluator.Eval answers for the node.    *)
(* A call's result carries evals, the ids of the nodes it had evaluated.   *)
(* Here Values is a slice [buf, len] into bufs.                            *)
(***************************************************************************)
MaxNodes == 3

MaxSeries == 2

ErrNil == "nil"

EvalErrors == {"ErrSeriesDoesNotExist", "ErrMissingTimeseries", "ErrUnknownFunction"}

\* evaluator.Eval(arg, from, until, values)
Eval(arg) == arg.res

IsName(arg) == arg.kind = "name"

IsFunc(arg) == arg.kind = "func"

\* GetSeriesArg keeping the series Eval returned along with an error
GetSeriesArg_KeepOnError(arg) ==
    IF ~IsName(arg) /\ ~IsFunc(arg)
    THEN [series |-> <<>>, err |-> "ErrMissingTimeseries", evals |-> <<>>]
    ELSE [series |-> Eval(arg).series, err |-> Eval(arg).err, evals |-> <<arg.id>>]

\* GetSeriesArg(arg, from, until, values)
GetSeriesArg(arg) ==
    IF ~IsName(arg) /\ ~IsFunc(arg)
    THEN [series |-> <<>>, err |-> "ErrMissingTimeseries", evals |-> <<>>]
    ELSE LET r == Eval(arg)
         IN  IF r.err # ErrNil
             THEN [series |-> <<>>, err |-> r.err, evals |-> <<arg.id>>]
             ELSE [series |-> r.series, err |-> ErrNil, evals |-> <<arg.id>>]

\* the loop of GetSeriesArgs tolerating every error, not only SeriesDoesNotExist
RECURSIVE GetSeriesArgsFrom_TolerateAll(_, _, _)
GetSeriesArgsFrom_TolerateAll(e, k, acc) ==
    IF k > Len(e)
    THEN IF Len(acc.series) = 0
         THEN [series |-> <<>>, err |-> "ErrSeriesDoesNotExist", evals |-> acc.evals]
         ELSE [series |-> acc.series, err |-> ErrNil, evals |-> acc.evals]
    ELSE LET r == GetSeriesArg(e[k])
         IN  GetSeriesArgsFrom_TolerateAll(e, k + 1,
                [series |-> acc.series \o r.series, evals |-> acc.evals \o r.evals])

\* the loop of GetSeriesArgs from the k-th node on; acc = [series, evals]
RECURSIVE GetSeriesArgsFrom(_, _, _)
GetSeriesArgsFrom(e, k, acc) ==
    IF k > Len(e)
    THEN IF Len(acc.series) = 0
         THEN [series |-> <<>>, err |-> "ErrSeriesDoesNotExist", evals |-> acc.evals]
         ELSE [series |-> acc.series, err |-> ErrNil, evals |-> acc.evals]
    ELSE LET r == GetSeriesArg(e[k])
         IN  IF r.err # ErrNil /\ r.err # "ErrSeriesDoesNotExist"
             THEN [series |-> <<>>, err |-> r.err, evals |-> acc.evals \o r.evals]
             ELSE GetSeriesArgsFrom(e, k + 1,
                     [series |-> acc.series \o r.series,
                      evals |-> acc.evals \o r.evals])

\* GetSeriesArgs(e, from, until, values)
GetSeriesArgs(e) == GetSeriesArgsFrom(e, 1, [series |-> <<>>, evals |-> <<>>])

\* strings.Join(names, ",")
RECURSIVE Join(_)
Join(names) ==
    IF Len(names) = 0 THEN <<>>
    ELSE IF Len(names) = 1 THEN names[1]
    ELSE names[1] \o <<",">> \o Join(Tail(names))

\* RemoveEmptySeriesFromName(args)
RemoveEmptySeriesFromName(as, h) == Join([k \in 1..Len(as) |-> h[as[k]].Name])

\* GetSeriesArgsAndRemoveNonExisting(e, ...): the result and the node after it
GetSeriesArgsAndRemoveNonExisting(e, h) ==
    LET r == GetSeriesArgs(e.Args)
    IN  IF r.err # ErrNil THEN [res |-> r, expr |-> e]
        ELSE IF Len(r.series) < Len(e.Args)
        THEN [res |-> r,
              expr |-> [e EXCEPT !.RawArgs = RemoveEmptySeriesFromName(r.series, h)]]
        ELSE [res |-> r, expr |-> e]

\* the transforms tried as the caller's seriesFunc: "copy" fills the template
\* with the input's values, "fill" with a constant, "self" returns the input
SeriesFuncs == {"copy", "fill", "self"}

FillValue == Float(7)

\* function(a, &r) on heap h and buffers b: [heap, bufs, ret]
ApplySeriesFunc(f, h, b, a, r) ==
    IF f = "self" THEN [heap |-> h, bufs |-> b, ret |-> a]
    ELSE LET src == b[h[a].Values.buf]
             dst == h[r].Values
             filled == [i \in 1..Len(b[dst.buf]) |->
                          IF i > dst.len THEN b[dst.buf][i]
                          ELSE IF f = "fill" THEN FillValue
                          ELSE IF i <= h[a].Values.len THEN src[i] ELSE PosZero]
         IN  [heap |-> h, bufs |-> [b EXCEPT ![dst.buf] = filled], ret |-> r]

\* the next address a map does not use
Fresh(m) == IF DOMAIN m = {} THEN 1
            ELSE 1 + CHOOSE x \in DOMAIN m : \A y \in DOMAIN m : y <= x

\* lines 103-105 without line 105: the template keeps the input's Values
Template_SharedValues(e, h, b, a) ==
    [heap |-> h @@ (Fresh(h) :> [h[a] EXCEPT !.Name = Sprintf2(e.Target, h[a].Name)]),
     bufs |-> b, r |-> Fresh(h)]

\* lines 103-105: r := *a with the new name and a new zeroed Values of the
\* input's length; [heap, bufs, r]
Template(e, h, b, a) ==
    [heap |-> h @@ (Fresh(h) :>
                [h[a] EXCEPT !.Name = Sprintf2(e.Target, h[a].Name),
                             !.Values = [buf |-> Fresh(b), len |-> h[a].Values.len]]),
     bufs |-> b @@ (Fresh(b) :> MakeFloats(h[a].Values.len)),
     r |-> Fresh(h)]

\* the loop of ForEachSeriesDo from the k-th series on; s = [heap, bufs, results]
RECURSIVE ForEachFrom(_, _, _, _, _)
ForEachFrom(e, f, arg, k, s) ==
    IF k > Len(arg) THEN s
    ELSE LET t == Template(e, s.heap, s.bufs, arg[k])
             c == ApplySeriesFunc(f, t.heap, t.bufs, arg[k], t.r)
         IN  ForEachFrom(e, f, arg, k + 1,
                [heap |-> c.heap, bufs |-> c.bufs,
                 results |-> Append(s.results, c.ret)])

\* ForEachSeriesDo(e, from, until, values, function):
\* [heap, bufs, series, err, evals, fault]
ForEachSeriesDo(e, h, b, f) ==
    IF Len(e.Args) = 0
    THEN [heap |-> h, bufs |-> b, series |-> <<>>, err |-> ErrNil, evals |-> <<>>,
          fault |-> "index out of range"]
    ELSE LET r == GetSeriesArg(e.Args[1])
         IN  IF r.err # ErrNil
             THEN [heap |-> h, bufs |-> b, series |-> <<>>,
                   err |-> "ErrMissingTimeseries", evals |-> r.evals,
                   fault |-> "none"]
             ELSE LET s == ForEachFrom(e, f, r.series, 1,
                              [heap |-> h, bufs |-> b, results |-> <<>>])
                  IN  [heap |-> s.heap, bufs |-> s.bufs, series |-> s.results,
                       err |-> ErrNil, evals |-> r.evals, fault |-> "none"]

(***************************************************************************)
(* Specification: one call of a resolving helper on a node                 *)
(***************************************************************************)
ResolveOps == {"GetSeriesArg", "GetSeriesArgs", "GetSeriesArgsAndRemoveNonExisting",
               "ForEachSeriesDo"}

\* the number of argument nodes tried for each helper
NodeCounts(o) ==
    IF o = "GetSeriesArg" THEN {1}
    ELSE IF o = "ForEachSeriesDo" THEN 0..2
    ELSE 0..MaxNodes

\* the series the evaluator holds for the i-th node live at these addresses
NodeAddr(i, j) == (i - 1) * MaxSeries + j

ResolveAddrs == 1..(MaxNodes * MaxSeries)

\* number of samples of the series at address a
SampleCount(a) == ((a - 1) % MaxVals) + 1

ResolveHeap ==
    [a \in ResolveAddrs |->
        [Name |-> SeriesName(a), StartTime |-> 0, StopTime |-> SampleCount(a),
         StepTime |-> 1, Values |-> [buf |-> a, len |-> SampleCount(a)]]]

ResolveBufs == [a \in ResolveAddrs |-> [i \in 1..SampleCount(a) |-> Sample(a, i)]]

\* what the evaluator may answer for a node: c series and no error, or an error
\* along with no or one series
Answers == {<<ErrNil, c>> : c \in 0..MaxSeries} \cup (EvalErrors \X {0, 1})

\* (kind, answer) of a node; a node that is neither a name nor a function is
\* never evaluated
NodeShapes == {<<"const", <<ErrNil, 0>>>>} \cup ({"name", "func"} \X Answers)

Node(i, shape) ==
    [id |-> i, kind |-> shape[1],
     res |-> [err |-> shape[2][1],
              series |-> [j \in 1..shape[2][2] |-> NodeAddr(i, j)]]]

InitResolve ==
    /\ op \in ResolveOps
    /\ pc = "start"
    /\ heap = ResolveHeap
    /\ bufs = ResolveBufs
    /\ \E n \in NodeCounts(op) : \E f \in [1..n -> NodeShapes] :
          expr = [Target |-> <<"scale">>, RawArgs |-> <<"raw">>,
                  Args |-> [i \in 1..n |-> Node(i, f[i])]]
    /\ fn \in (IF op = "ForEachSeriesDo" THEN SeriesFuncs ELSE {"none"})
    /\ args = <<>>
    /\ ExtrapolatePoints = FALSE
    /\ arch = "amd64"
    /\ in = [heap |-> heap, bufs |-> bufs]
    /\ out = <<>>
    /\ fault = "none"
    /\ procs = NoProcs
    /\ overlapped = FALSE

CallGetSeriesArg ==
    /\ op = "GetSeriesArg"
    /\ pc = "start"
    /\ out' = GetSeriesArg(expr.Args[1])
    /\ pc' = "done"
    /\ UNCHANGED <<op, heap, bufs, args, expr, fn, ExtrapolatePoints, arch, in, fault, raceVars>>

CallGetSeriesArgs ==
    /\ op = "GetSeriesArgs"
    /\ pc = "start"
    /\ out' = GetSeriesArgs(expr.Args)
    /\ pc' = "done"
    /\ UNCHANGED <<op, heap, bufs, args, expr, fn, ExtrapolatePoints, arch, in, fault, raceVars>>

CallGetSeriesArgsAndRemoveNonExisting ==
    /\ op = "GetSeriesArgsAndRemoveNonExisting"
    /\ pc = "start"
    /\ LET r == GetSeriesArgsAndRemoveNonExisting(expr, heap)
       IN  /\ out' = r.res
           /\ expr' = r.expr
    /\ pc' = "done"
    /\ UNCHANGED <<op, heap, bufs, args, fn, ExtrapolatePoints, arch, in, fault, raceVars>>

CallForEachSeriesDo ==
    /\ op = "ForEachSeriesDo"
    /\ pc = "start"
    /\ LET r == ForEachSeriesDo(expr, heap, bufs, fn)
       IN  /\ heap' = r.heap
           /\ bufs' = r.bufs
           /\ out' = [series |-> r.series, err |-> r.err, evals |-> r.evals]
           /\ fault' = r.fault
    /\ pc' = "done"
    /\ UNCHANGED <<op, args, expr, fn, ExtrapolatePoints, arch, in, raceVars>>

NextResolve ==
    \/ CallGetSeriesArg
    \/ CallGetSeriesArgs
    \/ CallGetSeriesArgsAndRemoveNonExisting
    \/ CallForEachSeriesDo

SpecResolve == InitResolve /\ [][NextResolve]_vars

(***************************************************************************)
(* Properties of the resolving helpers                                     *)
(***************************************************************************)
\* the node resolved: it is a name or a function and Eval gave no error
Resolved(node) == node.kind \in {"name", "func"} /\ node.res.err = ErrNil

\* the node failed with SeriesDoesNotExist
Absent(node) ==
    node.kind \in {"name", "func"} /\ node.res.err = "ErrSeriesDoesNotExist"

RECURSIVE ConcatResolved(_)
ConcatResolved(nodes) ==
    IF Len(nodes) = 0 THEN <<>>
    ELSE (IF Resolved(nodes[1]) THEN nodes[1].res.series ELSE <<>>)
         \o ConcatResolved(Tail(nodes))

\* C3: when no argument fails with another error, GetSeriesArgs returns the
\* concatenation, in argument order, of the series of the arguments that
\* resolved (an argument failing with SeriesDoesNotExist or resolving to no
\* series adds nothing and aborts nothing), and fails with SeriesDoesNotExist
\* exactly when that concatenation is empty.
C3_TolerantResolution ==
    (/\ op = "GetSeriesArgs" /\ pc = "done"
     /\ \A k \in 1..Len(expr.Args) : Resolved(expr.Args[k]) \/ Absent(expr.Args[k]))
    => LET all == ConcatResolved(expr.Args)
       IN  /\ out.evals = [k \in 1..Len(expr.Args) |-> k]
           /\ (out.err = "ErrSeriesDoesNotExist") = (Len(all) = 0)
           /\ out.err \in {ErrNil, "ErrSeriesDoesNotExist"}
           /\ out.err = ErrNil => out.series = all
           /\ out.err # ErrNil => out.series = <<>>

\* three nodes: the middle one resolves to no series, or is absent yet Eval
\* handed series back with the error; the others' series come back, no error
C3_Witness ==
    /\ op = "GetSeriesArgs" /\ pc = "done" /\ Len(expr.Args) = 3
    /\ Resolved(expr.Args[1]) /\ Len(expr.Args[1].res.series) > 0
    /\ Resolved(expr.Args[3]) /\ Len(expr.Args[3].res.series) > 0
    /\ \/ Resolved(expr.Args[2]) /\ Len(expr.Args[2].res.series) = 0
       \/ Absent(expr.Args[2]) /\ Len(expr.Args[2].res.series) > 0
    /\ out.err = ErrNil
    /\ out.series = expr.Args[1].res.series \o expr.Args[3].res.series

\* C4 (as stated): in every resolving helper, an error of the evaluator other
\* than SeriesDoesNotExist is the error the helper returns, and no node after
\* the failing one is evaluated.
C4_ErrorsUnchanged ==
    (op \in ResolveOps /\ pc = "done" /\ fault = "none")
    => \A k \in 1..Len(out.evals) :
          LET e == Eval(expr.Args[out.evals[k]]).err
          IN  (e # ErrNil /\ e # "ErrSeriesDoesNotExist")
              => (out.err = e /\ k = Len(out.evals))

\* the evaluator's answer for the k-th node evaluated is an error other than
\* SeriesDoesNotExist
OtherError(k) ==
    LET e == Eval(expr.Args[out.evals[k]]).err
    IN  e # ErrNil /\ e # "ErrSeriesDoesNotExist"

\* C4 (amended): in GetSeriesArg, GetSeriesArgs and
\* GetSeriesArgsAndRemoveNonExisting an error of the evaluator other than
\* SeriesDoesNotExist is the error returned and no node after the failing one
\* is evaluated; ForEachSeriesDo evaluates its first argument only and returns
\* MissingTimeseries for every error of that resolution.
C4_ErrorsUnchangedExceptForEach ==
    (op \in ResolveOps /\ pc = "done" /\ fault = "none")
    => IF op = "ForEachSeriesDo"
       THEN /\ \A k \in 1..Len(out.evals) : out.evals[k] = 1
            /\ Len(out.evals) <= 1
            /\ (GetSeriesArg(expr.Args[1]).err # ErrNil)
                  = (out.err = "ErrMissingTimeseries")
            /\ out.err \in {ErrNil, "ErrMissingTimeseries"}
       ELSE \A k \in 1..Len(out.evals) :
               OtherError(k)
               => /\ out.err = Eval(expr.Args[out.evals[k]]).err
                  /\ k = Len(out.evals)
                  /\ out.series = <<>>

\* the second of three nodes fails with an error the evaluator made up: it is
\* what GetSeriesArgs returns, and the third node is never evaluated
C4_Witness ==
    /\ op = "GetSeriesArgs" /\ pc = "done" /\ Len(expr.Args) = 3
    /\ Resolved(expr.Args[1]) /\ Len(expr.Args[1].res.series) > 0
    /\ expr.Args[2].kind = "func" /\ expr.Args[2].res.err = "ErrUnknownFunction"
    /\ expr.Args[3].kind = "name"
    /\ out.err = "ErrUnknownFunction"
    /\ out.evals = <<1, 2>>

\* the values a slice shows
SliceValues(b, sl) == SubSeq(b[sl.buf], 1, sl.len)

\* C8: ForEachSeries returns one output per series resolved from the first
\* argument, in their order; the j-th is what fn returned for the j-th input
\* and its template, a copy of the input's metadata named
\* "<function name>(<input name>)" whose new value buffer has the input's
\* length and is not the input's, so that the inputs' values stay as they were.
C8_ForEachOrdered ==
    (op = "ForEachSeriesDo" /\ pc = "done" /\ fault = "none" /\ out.err = ErrNil)
    => LET inp == Eval(expr.Args[1]).series
       IN  /\ Len(out.series) = Len(inp)
           /\ \A a \in DOMAIN in.heap :
                 /\ heap[a] = in.heap[a]
                 /\ bufs[a] = in.bufs[a]
           /\ \A j \in 1..Len(inp) :
                 LET a == inp[j]
                     o == out.series[j]
                 IN  IF fn = "self" THEN o = a
                     ELSE /\ o \notin DOMAIN in.heap
                          /\ \A i \in 1..Len(inp) : i # j => out.series[i] # o
                          /\ heap[o].Name = expr.Target \o <<"(">> \o heap[a].Name \o <<")">>
                          /\ heap[o].StartTime = heap[a].StartTime
                          /\ heap[o].StopTime = heap[a].StopTime
                          /\ heap[o].StepTime = heap[a].StepTime
                          /\ heap[o].Values.len = heap[a].Values.len
                          /\ heap[o].Values.buf \notin DOMAIN in.bufs
                          /\ \A i \in 1..Len(inp) :
                                i # j => heap[out.series[i]].Values.buf # heap[o].Values.buf
                          /\ SliceValues(bufs, heap[o].Values) =
                                (IF fn = "copy" THEN SliceValues(in.bufs, in.heap[a].Values)
                                 ELSE [i \in 1..heap[a].Values.len |-> FillValue])

\* two inputs transformed by a function that overwrites its template
C8_Witness ==
    /\ op = "ForEachSeriesDo" /\ pc = "done" /\ out.err = ErrNil /\ fn = "fill"
    /\ Len(out.series) = 2
    /\ heap[out.series[1]].Name = <<"scale", "(">> \o SeriesName(1) \o <<")">>
    /\ heap[out.series[2]].Name = <<"scale", "(">> \o SeriesName(2) \o <<")">>
    /\ SliceValues(bufs, heap[out.series[2]].Values) # SliceValues(bufs, heap[2].Values)

(***************************************************************************)
(* ExtractMetric                                                           *)
(*                                                                         *)
(* A text is a sequence of bytes.  "a" stands for any name character, "x"  *)
(* for any other ASCII byte that is no punctuation of the scanner, "U" and *)
(* "U2" for the two bytes of a rune of the allowed ranges, "N" and "N2"    *)
(* for the two bytes of a rune outside them.                               *)
(***************************************************************************)
MaxLen == 4

\* the characters a text is written with
Chars == {"a", ";", "{", "}", ",", ")", "x", "U", "N"}

\* the UTF-8 encoding of a character
Encode(c) == IF c = "U" THEN <<"U", "U2">>
             ELSE IF c = "N" THEN <<"N", "N2">>
             ELSE <<c>>

RECURSIVE EncodeAll(_)
EncodeAll(cs) == IF Len(cs) = 0 THEN <<>> ELSE Encode(cs[1]) \o EncodeAll(Tail(cs))

\* parser.IsNameChar(b)
IsNameChar(b) == b = "a"

\* utf8.DecodeRuneInString(s[i:]) for 0 <= i < len(s): [r, w]; a byte that
\* starts no complete rune decodes as RuneError of width 1
DecodeRuneInString(s, i) ==
    IF s[i + 1] = "U" /\ i + 2 <= Len(s) /\ s[i + 2] = "U2" THEN [r |-> "U", w |-> 2]
    ELSE IF s[i + 1] = "N" /\ i + 2 <= Len(s) /\ s[i + 2] = "N2" THEN [r |-> "N", w |-> 2]
    ELSE IF s[i + 1] \in {"U", "U2", "N", "N2"} THEN [r |-> "RuneError", w |-> 1]
    ELSE [r |-> s[i + 1], w |-> 1]

\* unicode.In(r, parser.RangeTables...)
InRangeTables(r) == r = "U"

\* the loop of ExtractMetric from offset i on: [start, i] when it ends
RECURSIVE ExtractLoop(_, _, _, _)
ExtractLoop(s, i, braces, start) ==
    IF ~(i < Len(s)) THEN [start |-> start, i |-> i]
    ELSE LET b == s[i + 1]
         IN  IF IsNameChar(b) THEN ExtractLoop(s, i + 1, braces, start)
             ELSE IF b = ";" THEN [start |-> start, i |-> i]
             ELSE IF b = "{" THEN ExtractLoop(s, i + 1, braces + 1, start)
             ELSE IF b = "}"
             THEN IF braces = 0 THEN [start |-> start, i |-> i]
                  ELSE ExtractLoop(s, i + 1, braces - 1, start)
             ELSE IF b = ","
             THEN IF braces = 0 THEN [start |-> start, i |-> i]
                  ELSE ExtractLoop(s, i + 1, braces, start)
             ELSE IF b = ")" THEN [start |-> start, i |-> i]
             ELSE LET d == DecodeRuneInString(s, i)
                  IN  IF InRangeTables(d.r) THEN ExtractLoop(s, i + d.w, braces, start)
                      ELSE ExtractLoop(s, i + d.w, braces, i + 1)

\* ExtractMetric(s): s[start:i]
ExtractMetric(s) ==
    LET e == ExtractLoop(s, 0, 0, 0)
    IN  SubSeq(s, e.start + 1, e.i)

Texts == UNION {[1..n -> Chars] : n \in 0..MaxLen}

InitExtract ==
    /\ op = "ExtractMetric"
    /\ pc = "start"
    /\ \E cs \in Texts : in = [chars |-> cs, text |-> EncodeAll(cs)]
    /\ heap = <<>>
    /\ bufs = <<>>
    /\ args = <<>>
    /\ expr = <<>>
    /\ fn = "none"
    /\ ExtrapolatePoints = FALSE
    /\ arch = "amd64"
    /\ out = <<>>
    /\ fault = "none"
    /\ procs = NoProcs
    /\ overlapped = FALSE

CallExtractMetric ==
    /\ op = "ExtractMetric"
    /\ pc = "start"
    /\ out' = ExtractMetric(in.text)
    /\ pc' = "done"
    /\ UNCHANGED <<op, heap, bufs, args, expr, fn, ExtrapolatePoints, arch, in, fault, raceVars>>

NextExtract == CallExtractMetric

SpecExtract == InitExtract /\ [][NextExtract]_vars

(***************************************************************************)
(* Properties of ExtractMetric                                             *)
(***************************************************************************)
\* the byte offset of the k-th character of cs (of the end of cs for k = Len + 1)
Offset(cs, k) == Len(EncodeAll(SubSeq(cs, 1, k - 1)))

\* the brace depth before the k-th character: '{' minus '}' seen so far
Depth(cs, k) ==
    Cardinality({j \in 1..(k - 1) : cs[j] = "{"})
    - Cardinality({j \in 1..(k - 1) : cs[j] = "}"})

\* the k-th character ends the scan
Terminator(cs, k) ==
    \/ cs[k] \in {";", ")"}
    \/ cs[k] \in {",", "}"} /\ Depth(cs, k) = 0

\* the position of the first terminator, or one past the last character
EndPos(cs) ==
    IF \E k \in 1..Len(cs) : Terminator(cs, k)
    THEN CHOOSE k \in 1..Len(cs) :
            Terminator(cs, k) /\ \A j \in 1..(k - 1) : ~Terminator(cs, j)
    ELSE Len(cs) + 1

\* the character is neither a name character, nor one of '{', '}', ',', nor
\* in the allowed ranges
Noise(c) == c \notin {"a", "{", "}", ",", "U"}

\* the offset right after the last noise character before position e, or 0
StartOffset(cs, e) ==
    IF \E k \in 1..(e - 1) : Noise(cs[k])
    THEN LET k == CHOOSE k \in 1..(e - 1) :
                     Noise(cs[k]) /\ \A j \in (k + 1)..(e - 1) : ~Noise(cs[j])
         IN  Offset(cs, k + 1)
    ELSE 0

\* C7 (as stated): ExtractMetricName(text) is text[start:end], end the position
\* of the first terminator or the end of the text, start the offset right
\* after the last character before end that is no name character, none of
\* '{', '}', ',' and not in the allowed ranges, and 0 <= start <= end <= len.
C7_ExtractedSlice ==
    (op = "ExtractMetric" /\ pc = "done")
    => LET e == EndPos(in.chars)
           end == Offset(in.chars, e)
           start == StartOffset(in.chars, e)
       IN  /\ 0 <= start /\ start <= end /\ end <= Len(in.text)
           /\ out = SubSeq(in.text, start + 1, end)

(***************************************************************************)
(* Two concurrent calls of AlignSeries (extrapolation disabled), statement *)
(* by statement.  The calls share the heap; each has the locals            *)
(* [as, pc, j, k, minStart, maxStop, maxVals, minStepTime, valCnt,         *)
(* newVals], pc naming the source line the call is about to run.           *)
(***************************************************************************)
Procs == {1, 2}

Other(p) == 3 - p

\* the series the call p is working on
Cur(p) == procs[p].as[procs[p].k]

Running(p) == procs[p].pc \notin {"start", "done", "panic"}

\* the locals after the body of the range loop ran for one argument: the next
\* argument, the next pass, or the return
Advance(l) ==
    IF l.k < Len(l.as) THEN [l EXCEPT !.k = l.k + 1, !.pc = "L153"]
    ELSE IF l.j < 1 THEN [l EXCEPT !.j = l.j + 1, !.k = 1, !.pc = "L153"]
    ELSE [l EXCEPT !.pc = "done"]

\* a step of call p that leaves the heap alone
Local(p, l) ==
    /\ procs' = [procs EXCEPT ![p] = l]
    /\ overlapped' = (overlapped \/ Running(Other(p)))
    /\ fault' = IF l.pc = "panic" THEN "panic" ELSE fault
    /\ UNCHANGED <<op, pc, heap, bufs, args, expr, fn, ExtrapolatePoints, arch, in, out>>

\* a step of call p that stores h as the heap
Store(p, l, h) ==
    /\ procs' = [procs EXCEPT ![p] = l]
    /\ overlapped' = (overlapped \/ Running(Other(p)))
    /\ heap' = h
    /\ UNCHANGED <<op, pc, bufs, args, expr, fn, ExtrapolatePoints, arch, in, out, fault>>

\* lines 113-116
L113(p) ==
    /\ procs[p].pc = "start"
    /\ LET a == heap[procs[p].as[1]]
       IN  Local(p, [procs[p] EXCEPT !.pc = "L153", !.j = 0, !.k = 1,
                                    !.minStart = a.StartTime,
                                    !.maxStop = a.StopTime, !.maxVals = 0,
                                    !.minStepTime = a.StepTime])

\* lines 153-155
L153(p) ==
    /\ procs[p].pc = "L153"
    /\ LET n == Len(heap[Cur(p)].Values)
       IN  Local(p, [procs[p] EXCEPT !.pc = "L156",
                        !.maxVals = IF n > @ THEN n ELSE @])

\* lines 156-158
L156(p) ==
    /\ procs[p].pc = "L156"
    /\ LET t == heap[Cur(p)].StartTime
       IN  Local(p, [procs[p] EXCEPT !.pc = "L159",
                        !.minStart = IF t < @ THEN t ELSE @])

\* line 159
L159(p) ==
    /\ procs[p].pc = "L159"
    /\ Local(p, [procs[p] EXCEPT
                    !.pc = IF procs[p].minStart < heap[Cur(p)].StartTime
                           THEN "L160" ELSE "L167"])

\* the padding count of lines 160-161 and 171-172 for a distance d: the
\* locals with valCnt and the zeroed newVals, or the panic
MakePadding(l, d, step, next) ==
    IF step = 0 THEN [l EXCEPT !.pc = "panic"]
    ELSE IF Quo(d, step) < 0 THEN [l EXCEPT !.pc = "panic"]
    ELSE [l EXCEPT !.pc = next, !.valCnt = Quo(d, step),
                   !.newVals = MakeFloats(Quo(d, step))]

\* lines 160-161
L160(p) ==
    /\ procs[p].pc = "L160"
    /\ Local(p, MakePadding(procs[p], heap[Cur(p)].StartTime - procs[p].minStart,
                            heap[Cur(p)].StepTime, "L162"))

\* line 162
L162(p) ==
    /\ procs[p].pc = "L162"
    /\ Local(p, [procs[p] EXCEPT !.pc = "L163",
                     !.newVals = @ \o heap[Cur(p)].Values])

\* line 163
L163(p) ==
    /\ procs[p].pc = "L163"
    /\ Store(p, [procs[p] EXCEPT !.pc = "L164"],
             [heap EXCEPT ![Cur(p)].Values = procs[p].newVals])

\* line 164 left out: the start time is not updated
StoreStartTime_Skipped(h, a, t) == h

\* line 164: arg.StartTime = minStart
StoreStartTime(h, a, t) == [h EXCEPT ![a].StartTime = t]

L164(p) ==
    /\ procs[p].pc = "L164"
    /\ Store(p, [procs[p] EXCEPT !.pc = "L167"],
             StoreStartTime(heap, Cur(p), procs[p].minStart))

\* lines 167-169
L167(p) ==
    /\ procs[p].pc = "L167"
    /\ LET t == heap[Cur(p)].StopTime
       IN  Local(p, [procs[p] EXCEPT !.pc = "L170",
                        !.maxStop = IF t > @ THEN t ELSE @])

\* line 170
L170(p) ==
    /\ procs[p].pc = "L170"
    /\ Local(p, IF procs[p].maxStop > heap[Cur(p)].StopTime
                THEN [procs[p] EXCEPT !.pc = "L171"]
                ELSE Advance(procs[p]))

\* lines 171-172
L171(p) ==
    /\ procs[p].pc = "L171"
    /\ Local(p, MakePadding(procs[p], procs[p].maxStop - heap[Cur(p)].StopTime,
                            heap[Cur(p)].StepTime, "L173"))

\* line 173, the call of append: reads arg.Values
L173(p) ==
    /\ procs[p].pc = "L173"
    /\ Local(p, [procs[p] EXCEPT !.pc = "L173w",
                     !.newVals = heap[Cur(p)].Values \o @])

\* line 173, the assignment to arg.Values
L173w(p) ==
    /\ procs[p].pc = "L173w"
    /\ Store(p, [procs[p] EXCEPT !.pc = "L174"],
             [heap EXCEPT ![Cur(p)].Values = procs[p].newVals])

\* line 174
L174(p) ==
    /\ procs[p].pc = "L174"
    /\ Store(p, Advance(procs[p]),
             [heap EXCEPT ![Cur(p)].StopTime = procs[p].maxStop])

\* the series the two calls are given: positive step, at least one sample
RaceShapes == (0..MaxStart) \X (1..MaxVals) \X {1}

\* both calls are handed the same list of the same two series
InitRace ==
    /\ op = "AlignSeriesConcurrent"
    /\ pc = "start"
    /\ \E f \in [1..2 -> RaceShapes] :
          heap = [k \in 1..2 |-> Series(k, f[k][1], f[k][2], f[k][3])]
    /\ procs = [p \in Procs |->
                  [as |-> <<1, 2>>, pc |-> "start",
                   j |-> 0, k |-> 1, minStart |-> 0, maxStop |-> 0, maxVals |-> 0,
                   minStepTime |-> 0, valCnt |-> 0, newVals |-> <<>>]]
    /\ overlapped = FALSE
    /\ ExtrapolatePoints = FALSE
    /\ arch = "amd64"
    /\ in = heap
    /\ out = <<>>
    /\ fault = "none"
    /\ bufs = <<>>
    /\ args = <<>>
    /\ expr = <<>>
    /\ fn = "none"

NextRace ==
    \E p \in Procs :
       \/ L113(p) \/ L153(p) \/ L156(p) \/ L159(p) \/ L160(p) \/ L162(p)
       \/ L163(p) \/ L164(p) \/ L167(p) \/ L170(p) \/ L171(p) \/ L173(p)
       \/ L173w(p) \/ L174(p)

SpecRace == InitRace /\ [][NextRace]_vars

(***************************************************************************)
(* Properties of concurrent calls                                          *)
(***************************************************************************)
BothDone == \A p \in Procs : procs[p].pc = "done"

\* the heap after call p ran alone on heap h
AlignAlone(p, h) == AlignSeries(procs[p].as, h, FALSE, arch).heap

\* the heaps the two calls leave when one runs after the other
SequentialHeaps == {AlignAlone(2, AlignAlone(1, in)), AlignAlone(1, AlignAlone(2, in))}

\* C6: AlignSeries changes the caller's series in place and takes no lock: two
\* calls given the same series leave it as a sequential execution would
\* whenever they do not overlap (the change one call made is what the other
\* finds), and every other outcome comes from calls that overlapped; such an
\* outcome exists (C6_Witness).
C6_CorruptionOnlyByOverlap ==
    /\ (BothDone /\ ~overlapped) => heap \in SequentialHeaps
    /\ (BothDone /\ heap \notin SequentialHeaps) => overlapped
    /\ (BothDone /\ ~overlapped) =>
          \A a \in {1, 2} : in[a].StartTime # in[3 - a].StartTime
                             => \E k \in {1, 2} : heap[k] # in[k]

\* both calls returned and the shared series, which needed padding, holds more
\* values than after either sequential execution: it was padded twice
C6_Witness ==
    /\ BothDone
    /\ in[2].StartTime > in[1].StartTime
    /\ \A h \in SequentialHeaps : Len(heap[2].Values) > Len(h[2].Values)

(***************************************************************************)
(* The helpers together                                                    *)
(***************************************************************************)
Init == InitAlign \/ InitAgg \/ InitResolve \/ InitExtract \/ InitRace

Next == NextAlign \/ NextAgg \/ NextResolve \/ NextExtract \/ NextRace

Spec == Init /\ [][Next]_vars

====
